---- MODULE Spec2Model ----
(***************************************************************************)
(* GGUF insights engine (GgufInsights) and GGUF metadata decoder of        *)
(* node-llama-cpp, as a state machine.                                     *)
(*                                                                         *)
(* Numbers.  The tensor-size model works on integers: every block size of  *)
(* the type table is a power of two, so the double-precision quotient      *)
(* ne[0] / blockSize is exact and Math.floor of it is integer division.    *)
(* The context estimate divides by head_count, by 2 and by 4096 and        *)
(* multiplies by 77.655, so it is computed on exact rationals [n, d]; a    *)
(* division by zero yields the non-finite value (d = 0), as Infinity/NaN.  *)
(* An optional value (undefined / null in the source) is the empty tuple   *)
(* <<>>, a present one the 1-tuple <<v>>.                                  *)
(***************************************************************************)
EXTENDS Integers, Sequences, FiniteSets, TLC

(***************************************************************************)
(* Bounds of the model                                                     *)
(***************************************************************************)
\* longest tensor list enumerated in full by the model-size specification
MaxTensors == 2
\* modelGpuLayers / gpuLayers arguments range over -1 .. MaxGpuLayers
MaxGpuLayers == 5
\* contextSize arguments are 0, 2048, ..., MaxContextBlocks * 2048
MaxContextBlocks == 2

(***************************************************************************)
(* Optional values and the ?? operator                                     *)
(***************************************************************************)
Undefined == <<>>

Some(v) == <<v>>

\* a ?? b
Coalesce(opt, default) == IF opt = Undefined THEN default ELSE opt[1]

(***************************************************************************)
(* Exact rational arithmetic for the JavaScript numbers of the context     *)
(* estimate                                                                *)
(***************************************************************************)
Abs(x) == IF x < 0 THEN -x ELSE x

RECURSIVE GCD(_, _)
GCD(a, b) == IF b = 0 THEN a ELSE GCD(b, a % b)

NotFinite == [n |-> 0, d |-> 0]

Rat(n, d) ==
    IF d = 0 THEN NotFinite
    ELSE LET g == GCD(Abs(n), Abs(d))
             s == IF d < 0 THEN -1 ELSE 1
         IN  [n |-> s * (n \div g), d |-> s * (d \div g)]

RInt(i) == [n |-> i, d |-> 1]

IsFinite(a) == a.d # 0

RAdd(a, b) ==
    IF ~IsFinite(a) \/ ~IsFinite(b) THEN NotFinite
    ELSE LET g == GCD(a.d, b.d)
         IN  Rat(a.n * (b.d \div g) + b.n * (a.d \div g), a.d * (b.d \div g))

RMul(a, b) ==
    IF ~IsFinite(a) \/ ~IsFinite(b) THEN NotFinite
    ELSE LET x == Rat(a.n, b.d)
             y == Rat(b.n, a.d)
         IN  Rat(x.n * y.n, x.d * y.d)

\* a / b of two JavaScript numbers; x / 0 is Infinity or NaN
RDiv(a, b) ==
    IF ~IsFinite(a) \/ ~IsFinite(b) \/ b.n = 0 THEN NotFinite
    ELSE RMul(a, Rat(b.d, b.n))

RGeq0(a) == IsFinite(a) /\ a.n >= 0

RLess(a, b) == a.n * b.d < b.n * a.d

(***************************************************************************)
(* The injected tensor runtime: type table and constants                   *)
(***************************************************************************)
\* GgmlType values used by the model
F32 == 0
F16 == 1
Q4_0 == 2
Q4_2 == 4
Q4_3 == 5

\* llama._bindings.getTypeSizeForGgmlType: Q4_2 and Q4_3 have no entry
getTypeSizeForGgmlType(ggmlType) ==
    CASE ggmlType = F32 -> Some(4)
      [] ggmlType = F16 -> Some(2)
      [] ggmlType = Q4_0 -> Some(18)
      [] ggmlType = Q4_3 -> Some(24)
      [] OTHER -> Undefined

\* llama._bindings.getBlockSizeForGgmlType: Q4_3 has a type size, no block size
getBlockSizeForGgmlType(ggmlType) ==
    CASE ggmlType = F32 -> Some(1)
      [] ggmlType = F16 -> Some(1)
      [] ggmlType = Q4_0 -> Some(32)
      [] OTHER -> Undefined

\* llama._consts.ggmlMaxDims
ggmlMaxDims == 4

(***************************************************************************)
(* Per-tensor byte size                                                    *)
(***************************************************************************)
Threw == [threw |-> TRUE, value |-> 0]

Returned(v) == [threw |-> FALSE, value |-> v]

\* Array(n).fill(v)
Fill(n, v) == [i \in 1..n |-> v]

\* array.slice(0, end)
SliceTo(s, end) == SubSeq(s, 1, IF end < Len(s) THEN end ELSE Len(s))

RECURSIVE NbFrom(_, _, _)
\* for (let i = 2; i < ggmlMaxDims; i++) nb[i] = nb[i - 1] * ne[i - 1];   (i is 0-based)
NbFrom(ne, nb, i) ==
    IF i < ggmlMaxDims
    THEN NbFrom(ne, [nb EXCEPT ![i + 1] = nb[i] * ne[i]], i + 1)
    ELSE nb

\* nb[1] without the block division: typeSize * ne[0]
getTensorNeAndNbUnblocked(tensor, typeSize, blockSize) ==
    LET pad == ggmlMaxDims - Len(tensor.dimensions)
        ne == SliceTo(tensor.dimensions \o Fill(IF pad > 0 THEN pad ELSE 0, 1), ggmlMaxDims)
        nb0 == <<typeSize, typeSize * ne[1]>> \o Fill(ggmlMaxDims - 2, 0)
    IN  [ne |-> ne, nb |-> NbFrom(ne, nb0, 2)]

getTensorNeAndNb(tensor, typeSize, blockSize) ==
    LET pad == ggmlMaxDims - Len(tensor.dimensions)
        ne == SliceTo(tensor.dimensions \o Fill(IF pad > 0 THEN pad ELSE 0, 1), ggmlMaxDims)
        nb0 == <<typeSize, (typeSize * ne[1]) \div blockSize>> \o Fill(ggmlMaxDims - 2, 0)
    IN  [ne |-> ne, nb |-> NbFrom(ne, nb0, 2)]

RECURSIVE StrideBytes(_, _, _, _)
\* for (let i = from; i < ggmlMaxDims; i++) totalBytes += (ne[i] - 1) * nb[i];   (i is 0-based)
StrideBytes(ne, nb, i, totalBytes) ==
    IF i < ggmlMaxDims
    THEN StrideBytes(ne, nb, i + 1, totalBytes + (ne[i + 1] - 1) * nb[i + 1])
    ELSE totalBytes

calculateTensorSize(tensor) ==
    LET typeSize == getTypeSizeForGgmlType(tensor.ggmlType)
        blockSize == getBlockSizeForGgmlType(tensor.ggmlType)
    IN  IF typeSize = Undefined \/ blockSize = Undefined
        THEN Threw
        ELSE LET r == getTensorNeAndNb(tensor, typeSize[1], blockSize[1])
             IN  IF blockSize[1] = 1
                 THEN Returned(StrideBytes(r.ne, r.nb, 0, typeSize[1]))
                 ELSE Returned(StrideBytes(r.ne, r.nb, 1,
                                           (r.ne[1] * r.nb[1]) \div blockSize[1]))

RECURSIVE SizeLoopSkipping(_, _, _)
\* a loop that leaves out a tensor it cannot size instead of throwing
SizeLoopSkipping(tensorsInfo, i, size) ==
    IF i > Len(tensorsInfo) THEN Returned(size)
    ELSE LET one == calculateTensorSize(tensorsInfo[i])
         IN  SizeLoopSkipping(tensorsInfo, i + 1,
                              IF one.threw THEN size ELSE size + one.value)

RECURSIVE SizeLoop(_, _, _)
\* for (const tensorInfo of tensorsInfo) size += calculateTensorSize(tensorInfo, llama);
SizeLoop(tensorsInfo, i, size) ==
    IF i > Len(tensorsInfo) THEN Returned(size)
    ELSE LET one == calculateTensorSize(tensorsInfo[i])
         IN  IF one.threw THEN Threw
             ELSE SizeLoop(tensorsInfo, i + 1, size + one.value)

\* a sum that starts at the second tensor
calculateTensorsSizeSkipFirst(tensorsInfo) == SizeLoop(tensorsInfo, 2, 0)

calculateTensorsSize(tensorsInfo) == SizeLoop(tensorsInfo, 1, 0)

(***************************************************************************)
(* Tensor names.  A name is the sequence of its characters.                *)
(***************************************************************************)
Digits == <<"0", "1", "2", "3", "4", "5", "6", "7", "8", "9">>

IsDigit(c) == \E k \in 1..10 : Digits[k] = c

DigitValue(c) == (CHOOSE k \in 1..10 : Digits[k] = c) - 1

RECURSIVE SkipWhitespace(_, _)
SkipWhitespace(s, i) ==
    IF i <= Len(s) /\ s[i] = " " THEN SkipWhitespace(s, i + 1) ELSE i

RECURSIVE ReadDigits(_, _, _, _)
\* the longest run of decimal digits from position i: <<>> when there is none
ReadDigits(s, i, any, acc) ==
    IF i <= Len(s) /\ IsDigit(s[i])
    THEN ReadDigits(s, i + 1, TRUE, acc * 10 + DigitValue(s[i]))
    ELSE IF any THEN Some(acc) ELSE Undefined

\* parseInt(string) with no radix: leading whitespace, an optional sign, then
\* the longest prefix of digits; NaN (Undefined here) when there is no digit.
\* A "0x" prefix switches JavaScript to radix 16; the names of the model hold
\* no "x" after a leading 0, so that branch is never taken.
parseInt(s) ==
    LET i == SkipWhitespace(s, 1)
        neg == i <= Len(s) /\ s[i] = "-"
        j == IF i <= Len(s) /\ s[i] \in {"-", "+"} THEN i + 1 ELSE i
        mag == ReadDigits(s, j, FALSE, 0)
    IN  IF mag = Undefined THEN Undefined
        ELSE Some(IF neg THEN -mag[1] ELSE mag[1])

layerTensorPrefix == <<"b", "l", "k", ".">>

\* string.startsWith(prefix)
StartsWith(s, prefix) ==
    Len(s) >= Len(prefix) /\ SubSeq(s, 1, Len(prefix)) = prefix

\* string.indexOf(c, from), 0-based, -1 when absent
IndexOf(s, c, from) ==
    LET hits == {k \in from..(Len(s) - 1) : s[k + 1] = c}
    IN  IF hits = {} THEN -1
        ELSE CHOOSE k \in hits : \A m \in hits : k <= m

\* string.slice(start, end), 0-based, end exclusive
Slice(s, start, end) == SubSeq(s, start + 1, end)

\* the layerNumber of parseTensorName(tensorName): Undefined or Some(number)
parseTensorName(tensorName) ==
    IF ~StartsWith(tensorName, layerTensorPrefix) THEN Undefined
    ELSE LET dotIndex == IndexOf(tensorName, ".", Len(layerTensorPrefix))
             layerNumberString ==
                 Slice(tensorName, Len(layerTensorPrefix),
                       IF dotIndex < 0 THEN Len(tensorName) ELSE dotIndex)
         IN  parseInt(layerNumberString)

(***************************************************************************)
(* GgufInsights: partition and layer count                                 *)
(***************************************************************************)
\* ggufFileInfo.tensorInfo ?? []
TensorInfoOf(fileInfo) == Coalesce(fileInfo.tensorInfo, <<>>)

\* layerNumber <= gpuLayers in place of <
GoesToGpuInclusive(layerNumber, gpuLayers) ==
    layerNumber = Undefined \/ layerNumber[1] <= gpuLayers

\* layerNumber == null || layerNumber < gpuLayers
GoesToGpu(layerNumber, gpuLayers) ==
    layerNumber = Undefined \/ layerNumber[1] < gpuLayers

RECURSIVE SplitLoop(_, _, _, _, _)
\* for (const singleTensorInfo of tensorInfo) { ... push ... }
SplitLoop(tensorInfo, gpuLayers, i, cpuTensors, gpuTensors) ==
    IF i > Len(tensorInfo) THEN [cpu |-> cpuTensors, gpu |-> gpuTensors]
    ELSE IF GoesToGpu(parseTensorName(tensorInfo[i].name), gpuLayers)
         THEN SplitLoop(tensorInfo, gpuLayers, i + 1, cpuTensors,
                        Append(gpuTensors, tensorInfo[i]))
         ELSE SplitLoop(tensorInfo, gpuLayers, i + 1,
                        Append(cpuTensors, tensorInfo[i]), gpuTensors)

\* the split without its gpuLayers === 0 case
getTensorResourceSplitNoZeroCase(fileInfo, gpuLayers) ==
    SplitLoop(TensorInfoOf(fileInfo), gpuLayers, 1, <<>>, <<>>)

getTensorResourceSplit(fileInfo, gpuLayers) ==
    LET tensorInfo == TensorInfoOf(fileInfo)
    IN  IF gpuLayers = 0 THEN [cpu |-> tensorInfo, gpu |-> <<>>]
        ELSE SplitLoop(tensorInfo, gpuLayers, 1, <<>>, <<>>)

RECURSIVE LayerNumbersLoop(_, _, _)
\* for (...) if (layerNumber != null) layerNumbers.add(layerNumber);
LayerNumbersLoop(tensorInfo, i, layerNumbers) ==
    IF i > Len(tensorInfo) THEN layerNumbers
    ELSE LET layerNumber == parseTensorName(tensorInfo[i].name)
         IN  LayerNumbersLoop(tensorInfo, i + 1,
                 IF layerNumber # Undefined
                 THEN layerNumbers \cup {layerNumber[1]}
                 ELSE layerNumbers)

determineNumberOfLayersFromTensorInfo(fileInfo) ==
    Cardinality(LayerNumbersLoop(TensorInfoOf(fileInfo), 1, {}))

\* block_count || ... in place of block_count ?? ...
getFileLayersFalsy(fileInfo) ==
    LET block_count == fileInfo.architectureMetadata.block_count
    IN  IF block_count = Undefined \/ block_count[1] = 0
        THEN determineNumberOfLayersFromTensorInfo(fileInfo)
        ELSE block_count[1]

getFileLayers(fileInfo) ==
    Coalesce(fileInfo.architectureMetadata.block_count,
             determineNumberOfLayersFromTensorInfo(fileInfo))

outputLayers == 1

\* the value the totalLayers getter computes on a cache miss
ComputeTotalLayers(fileInfo) == getFileLayers(fileInfo) + outputLayers

\* the value the totalLayers getter returns: the cached one when there is one
totalLayersOf(fileInfo, inst) ==
    IF inst._totalLayers # Undefined THEN inst._totalLayers[1]
    ELSE ComputeTotalLayers(fileInfo)

\* a getter that derives the layer count on every read
ReadTotalLayersUncached(fileInfo, inst) ==
    [inst EXCEPT !._totalLayers = Some(ComputeTotalLayers(fileInfo)),
                 !.layerDerivations = @ + 1]

\* the instance after one read of the totalLayers getter: a cache hit leaves it
\* alone, a miss derives the count and stores it
ReadTotalLayers(fileInfo, inst) ==
    IF inst._totalLayers # Undefined THEN inst
    ELSE [inst EXCEPT !._totalLayers = Some(ComputeTotalLayers(fileInfo)),
                      !.layerDerivations = @ + 1]

\* estimateModelResourceRequirements({gpuLayers}); no tensor of a constructed
\* instance is unsized, so neither sum throws
estimateModelResourceRequirements(fileInfo, gpuLayers) ==
    LET split == getTensorResourceSplit(fileInfo, gpuLayers)
    IN  [cpuRam |-> calculateTensorsSize(split.cpu),
         gpuVram |-> calculateTensorsSize(split.gpu)]

(***************************************************************************)
(* GgufInsights: context resource estimate                                 *)
(***************************************************************************)
\* sizeof(size_t), sizeof(float), sizeof(uint32_t)
sizeTBytes == 8
floatBytes == 4
uint32TBytes == 4

\* llama._consts: LLAMA_MAX_RNG_STATE, sizeof(llama_pos), sizeof(llama_seq_id),
\* ggml_type_size(F32), ggml_type_size(F16)
llamaMaxRngState == 65536
llamaPosSize == 4
llamaSeqIdSize == 4
ggmlTypeF32Size == 4
ggmlTypeF16Size == 2

\* the graph estimate's magic numbers: 77.655 = 77655 / 1000, and 4096
graphFactorNum == 77655
graphFactorDen == 1000
graphContextUnit == 4096

\* object?.field
OptField(object, field) == IF object = Undefined THEN Undefined ELSE object[1][field]

\* no architecture taken for the state-space one
IsMambaNever(fileInfo) == FALSE

IsMamba(fileInfo) == fileInfo.architecture = "mamba"

IntMax(a, b) == IF a >= b THEN a ELSE b

IntMin(a, b) == IF a <= b THEN a ELSE b

\* the division without its (nHead == 0) guard
HeadDimensionUnguarded(nEmbd, nHead) == RDiv(RInt(nEmbd), RInt(nHead))

\* embedding_length / head_count, guarded by (nHead == 0) ? 0 : ...
HeadDimension(nEmbd, nHead) ==
    IF nHead = 0 THEN RInt(0) ELSE RDiv(RInt(nEmbd), RInt(nHead))

\* the product without its contextSize factor
KvTensorsSizeNoContext(layers, totalNEmbdGqa, contextSize, typeSize) ==
    RMul(RMul(RInt(layers), totalNEmbdGqa), RInt(typeSize))

\* layers * totalNEmbdGqa * contextSize * typeSize
KvTensorsSize(layers, totalNEmbdGqa, contextSize, typeSize) ==
    RMul(RMul(RMul(RInt(layers), totalNEmbdGqa), RInt(contextSize)), RInt(typeSize))

estimateKvMemorySizeInBytes(fileInfo, contextSize, layers) ==
    LET md == fileInfo.architectureMetadata
        nHead == Coalesce(OptField(md.attention, "head_count"), 0)
        nEmbd == Coalesce(md.embedding_length, 0)
        keyLength == OptField(md.attention, "key_length")
        nEmbdHeadK == IF keyLength # Undefined THEN RInt(keyLength[1])
                      ELSE HeadDimension(nEmbd, nHead)
        nHeadKv == Coalesce(OptField(md.attention, "head_count_kv"), nHead)
        modelNEmbdKGqa == RMul(nEmbdHeadK, RInt(nHeadKv))
        ssmDConv == Coalesce(OptField(md.ssm, "conv_kernel"), 0)
        ssmDInner == Coalesce(OptField(md.ssm, "inner_size"), 0)
        modelNEmbdKS == (IF ssmDConv > 0 THEN ssmDConv - 1 ELSE 0) * ssmDInner
        valueLength == OptField(md.attention, "value_length")
        nEmbdHeadV == IF valueLength # Undefined THEN RInt(valueLength[1])
                      ELSE HeadDimension(nEmbd, nHead)
        modelNEmbdVGqa == RMul(nEmbdHeadV, RInt(nHeadKv))
        ssmDState == Coalesce(OptField(md.ssm, "state_size"), 0)
        modelNEmbdVS == ssmDState * ssmDInner
        totalNEmbdKGqa == RAdd(modelNEmbdKGqa, RInt(modelNEmbdKS))
        totalNEmbdVGqa == RAdd(modelNEmbdVGqa, RInt(modelNEmbdVS))
        keyTypeSize == IF IsMamba(fileInfo) THEN ggmlTypeF32Size ELSE ggmlTypeF16Size
        valueTypeSize == IF IsMamba(fileInfo) THEN ggmlTypeF32Size ELSE ggmlTypeF16Size
        keyTensorsSize == KvTensorsSize(layers, totalNEmbdKGqa, contextSize, keyTypeSize)
        valueTensorsSize == KvTensorsSize(layers, totalNEmbdVGqa, contextSize, valueTypeSize)
    IN  RAdd(keyTensorsSize, valueTensorsSize)

\* the overhead with one KV cell per token position whatever the architecture
overheadMemoryCellPerToken(fileInfo, contextSize, batchSize, sequences, isEmbeddingContext) ==
    LET llmData == fileInfo.architectureMetadata
        logitsSize == Coalesce(llmData.vocab_size, fileInfo.tokens) * batchSize
        embedSize == IF isEmbeddingContext
                     THEN Coalesce(llmData.embedding_length, 0) * batchSize
                     ELSE 0
    IN  4 * sizeTBytes + llamaMaxRngState + (logitsSize + embedSize) * floatBytes
        + 3 * uint32TBytes + contextSize * (llamaPosSize + sizeTBytes + llamaSeqIdSize)

\* the fixed bookkeeping overhead (llama_get_state_size)
overheadMemory(fileInfo, contextSize, batchSize, sequences, isEmbeddingContext) ==
    LET llmData == fileInfo.architectureMetadata
        vocabularySize == Coalesce(llmData.vocab_size, fileInfo.tokens)
        logitsSize == vocabularySize * batchSize
        embedSize == IF isEmbeddingContext
                     THEN Coalesce(llmData.embedding_length, 0) * batchSize
                     ELSE 0
        sRngSize == sizeTBytes
        sRng == llamaMaxRngState
        sLogitsSize == sizeTBytes
        sLogits == logitsSize * floatBytes
        sEmbeddingSize == sizeTBytes
        sEmbedding == embedSize * floatBytes
        sKvBufSize == sizeTBytes
        sKvHead == uint32TBytes
        sKvSize == uint32TBytes
        sKvUsed == uint32TBytes
        sKvCell == llamaPosSize + sizeTBytes + llamaSeqIdSize
        kvSelfLength == IF IsMamba(fileInfo) THEN IntMax(1, sequences) ELSE contextSize
        sKvCells == kvSelfLength * sKvCell
    IN  sRngSize + sRng + sLogitsSize + sLogits + sEmbeddingSize + sEmbedding
        + sKvBufSize + sKvHead + sKvSize + sKvUsed + sKvCells

RECURSIVE SumDimensions(_, _, _)
\* tensor.dimensions.reduce((res, dim) => res + Number(dim), 0)
SumDimensions(dimensions, i, acc) ==
    IF i > Len(dimensions) THEN acc
    ELSE SumDimensions(dimensions, i + 1, acc + dimensions[i])

RECURSIVE SumTensorDimensions(_, _, _)
\* tensorInfo.reduce((res, tensor) => res + <sum of its dimensions>, 0)
SumTensorDimensions(tensorInfo, i, acc) ==
    IF i > Len(tensorInfo) THEN acc
    ELSE SumTensorDimensions(tensorInfo, i + 1,
                             acc + SumDimensions(tensorInfo[i].dimensions, 1, 0))

estimateGraphOverheadMemory(fileInfo, totalLayers, contextSize) ==
    LET tensorInfo == TensorInfoOf(fileInfo)
        md == fileInfo.architectureMetadata
        totalDimensions ==
            IF Len(tensorInfo) = 0
            THEN RMul(RInt(totalLayers),
                      RDiv(RInt(Coalesce(md.embedding_length, 0)
                                + Coalesce(md.feed_forward_length, 0)), RInt(2)))
            ELSE RInt(SumTensorDimensions(tensorInfo, 1, 0))
    IN  RMul(RMul(totalDimensions, Rat(graphFactorNum, graphFactorDen)),
             RDiv(RInt(contextSize), RInt(graphContextUnit)))

\* the upper clamp alone
FinalGpuLayersNoLowerBound(modelGpuLayers, totalLayers) ==
    IntMin(Coalesce(modelGpuLayers, totalLayers), totalLayers)

\* Math.max(0, Math.min(modelGpuLayers ?? totalLayers, totalLayers))
FinalGpuLayers(modelGpuLayers, totalLayers) ==
    IntMax(0, IntMin(Coalesce(modelGpuLayers, totalLayers), totalLayers))

\* the GPU side's KV layers without the output layer's extra one
GpuKvLayersNoOutput(finalGpuLayers, totalLayers) == finalGpuLayers

\* finalGpuLayers < totalLayers ? (finalGpuLayers + 1) : finalGpuLayers
GpuKvLayers(finalGpuLayers, totalLayers) ==
    IF finalGpuLayers < totalLayers THEN finalGpuLayers + 1 ELSE finalGpuLayers

\* args = [contextSize, batchSize, modelGpuLayers, sequences, isEmbeddingContext,
\*         includeGraphOverhead]
estimateContextResourceRequirements(fileInfo, totalLayers, args) ==
    LET finalGpuLayers == FinalGpuLayers(args.modelGpuLayers, totalLayers)
        finalCpuLayers == totalLayers - finalGpuLayers
        overhead == RInt(overheadMemory(fileInfo, args.contextSize, args.batchSize,
                                        args.sequences, args.isEmbeddingContext))
        graphOverheadMemory ==
            IF ~args.includeGraphOverhead THEN RInt(0)
            ELSE estimateGraphOverheadMemory(fileInfo, totalLayers, args.contextSize)
        usingGpu == finalGpuLayers # 0
        cpuRam == RAdd(IF ~usingGpu THEN RAdd(overhead, graphOverheadMemory) ELSE RInt(0),
                       estimateKvMemorySizeInBytes(fileInfo, args.contextSize, finalCpuLayers))
        gpuVram == IF usingGpu
                   THEN RAdd(RAdd(overhead, graphOverheadMemory),
                             estimateKvMemorySizeInBytes(fileInfo, args.contextSize,
                                 GpuKvLayers(finalGpuLayers, totalLayers)))
                   ELSE RInt(0)
    IN  [cpuRam |-> cpuRam, gpuVram |-> gpuVram]

(***************************************************************************)
(* Byte source and binary metadata decoder                                 *)
(***************************************************************************)
\* readRange(offset, length): exactly length bytes, or an I/O error (Undefined)
\* when the source cannot serve them all
readRange(source, offset, length) ==
    IF offset + length <= Len(source)
    THEN Some(SubSeq(source, offset + 1, offset + length))
    ELSE Undefined

\* the ASCII bytes G, G, U, F
ggufMagic == <<71, 71, 85, 70>>

\* only the first byte of the magic compared
MagicMatchesFirstByteOnly(bytes) == bytes[1] = ggufMagic[1]

\* the 4-byte magic equals the literal bytes G, G, U, F
MagicMatches(bytes) == bytes = ggufMagic

RECURSIVE LittleEndian(_, _)
\* the unsigned little-endian value of the first n bytes
LittleEndian(bytes, n) ==
    IF n = 0 THEN 0 ELSE bytes[1] + 256 * LittleEndian(Tail(bytes), n - 1)

\* an unsigned integer of `width` bytes at pos: [st, val, pos]; st is "ok", "io"
\* (short read) or "format" (past the sane bound: a byte above the low two set)
ReadUint(source, pos, width) ==
    LET bytes == readRange(source, pos, width)
    IN  IF bytes = Undefined THEN [st |-> "io", val |-> 0, pos |-> pos]
        ELSE IF \E k \in 3..width : bytes[1][k] # 0
        THEN [st |-> "format", val |-> 0, pos |-> pos]
        ELSE [st |-> "ok", val |-> LittleEndian(bytes[1], IF width < 2 THEN width ELSE 2),
              pos |-> pos + width]

\* a length-prefixed string: unsigned 64-bit length, then the raw bytes
ReadString(source, pos) ==
    LET len == ReadUint(source, pos, 8)
    IN  IF len.st # "ok" THEN [st |-> len.st, val |-> <<>>, pos |-> pos]
        ELSE LET bytes == readRange(source, len.pos, len.val)
             IN  IF bytes = Undefined THEN [st |-> "io", val |-> <<>>, pos |-> pos]
                 ELSE [st |-> "ok", val |-> bytes[1], pos |-> len.pos + len.val]

\* value-type tags: 0 uint8, 1 int8, 2 uint16, 3 int16, 4 uint32, 5 int32,
\* 6 float32, 7 bool, 8 string, 9 array, 10 uint64, 11 int64, 12 float64
stringTag == 8
arrayTag == 9

ScalarWidth(tag) ==
    CASE tag \in {0, 1, 7} -> 1
      [] tag \in {2, 3} -> 2
      [] tag \in {4, 5, 6} -> 4
      [] tag \in {10, 11, 12} -> 8
      [] OTHER -> 0

\* a scalar or a string of the given tag; the value keeps the raw bytes
ReadScalar(source, pos, tag) ==
    IF tag = stringTag
    THEN LET str == ReadString(source, pos)
         IN  [st |-> str.st, val |-> [kind |-> tag, value |-> str.val], pos |-> str.pos]
    ELSE IF ScalarWidth(tag) = 0
    THEN [st |-> "format", val |-> [kind |-> tag, value |-> <<>>], pos |-> pos]
    ELSE LET bytes == readRange(source, pos, ScalarWidth(tag))
         IN  IF bytes = Undefined
             THEN [st |-> "io", val |-> [kind |-> tag, value |-> <<>>], pos |-> pos]
             ELSE [st |-> "ok", val |-> [kind |-> tag, value |-> bytes[1]],
                   pos |-> pos + ScalarWidth(tag)]

RECURSIVE ReadElements(_, _, _, _, _)
\* `left` more array elements of the element tag, appended to acc
ReadElements(source, pos, tag, left, acc) ==
    IF left = 0 THEN [st |-> "ok", val |-> acc, pos |-> pos]
    ELSE LET one == ReadScalar(source, pos, tag)
         IN  IF one.st # "ok" THEN [st |-> one.st, val |-> <<>>, pos |-> pos]
             ELSE ReadElements(source, one.pos, tag, left - 1, Append(acc, one.val))

\* a metadata value: a scalar, a string, or an array of scalars or strings
ReadValue(source, pos, tag) ==
    IF tag # arrayTag THEN ReadScalar(source, pos, tag)
    ELSE LET elemTag == ReadUint(source, pos, 4)
             count == ReadUint(source, elemTag.pos, 8)
         IN  IF elemTag.st # "ok"
             THEN [st |-> elemTag.st, val |-> <<>>, pos |-> pos]
             ELSE IF elemTag.val = arrayTag
             THEN [st |-> "format", val |-> <<>>, pos |-> pos]
             ELSE IF count.st # "ok"
             THEN [st |-> count.st, val |-> <<>>, pos |-> pos]
             ELSE LET elems == ReadElements(source, count.pos, elemTag.val, count.val, <<>>)
                  IN  [st |-> elems.st,
                       val |-> [kind |-> arrayTag, elementKind |-> elemTag.val,
                                value |-> elems.val],
                       pos |-> elems.pos]

\* one key-value entry: key string, 32-bit value-type tag, value
ReadKvEntry(source, pos) ==
    LET key == ReadString(source, pos)
        tag == ReadUint(source, key.pos, 4)
        value == ReadValue(source, tag.pos, tag.val)
    IN  IF key.st # "ok" THEN [st |-> key.st, val |-> <<>>, pos |-> pos]
        ELSE IF tag.st # "ok" THEN [st |-> tag.st, val |-> <<>>, pos |-> pos]
        ELSE IF value.st # "ok" THEN [st |-> value.st, val |-> <<>>, pos |-> pos]
        ELSE [st |-> "ok", val |-> [key |-> key.val, value |-> value.val],
              pos |-> value.pos]

RECURSIVE ReadDimensions(_, _, _, _)
ReadDimensions(source, pos, left, acc) ==
    IF left = 0 THEN [st |-> "ok", val |-> acc, pos |-> pos]
    ELSE LET one == ReadUint(source, pos, 8)
         IN  IF one.st # "ok" THEN [st |-> one.st, val |-> <<>>, pos |-> pos]
             ELSE ReadDimensions(source, one.pos, left - 1, Append(acc, one.val))

\* one tensor descriptor: name, 32-bit dimension count, the dimensions, 32-bit
\* type, 64-bit offset
ReadTensorEntry(source, pos) ==
    LET name == ReadString(source, pos)
        n == ReadUint(source, name.pos, 4)
        dims == ReadDimensions(source, n.pos, n.val, <<>>)
        type == ReadUint(source, dims.pos, 4)
        offset == ReadUint(source, type.pos, 8)
    IN  IF name.st # "ok" THEN [st |-> name.st, val |-> <<>>, pos |-> pos]
        ELSE IF n.st # "ok" THEN [st |-> n.st, val |-> <<>>, pos |-> pos]
        ELSE IF dims.st # "ok" THEN [st |-> dims.st, val |-> <<>>, pos |-> pos]
        ELSE IF type.st # "ok" THEN [st |-> type.st, val |-> <<>>, pos |-> pos]
        ELSE IF offset.st # "ok" THEN [st |-> offset.st, val |-> <<>>, pos |-> pos]
        ELSE [st |-> "ok",
              val |-> [name |-> name.val, dimensions |-> dims.val,
                       ggmlType |-> type.val, offset |-> offset.val],
              pos |-> offset.pos]

supportedVersions == {1, 2, 3}

\* the width of the tensor and key-value counts: 32 bits in version 1, 64 after
CountWidth(version) == IF version = 1 THEN 4 ELSE 8

ErrorOf(st) == IF st = "io" THEN "IOError" ELSE "FormatError"

\* the operation before parseMetadata is called on it
NotParsing ==
    [pc |-> "idle", pos |-> 0, version |-> 0, tensorCount |-> 0, kvCount |-> 0,
     metadata |-> <<>>, tensorInfo |-> <<>>, error |-> "none", returned |-> Undefined]

Parsing == [NotParsing EXCEPT !.pc = "magic"]

\* the operation failed: what it had read is dropped, nothing is returned
Failed(error) == [NotParsing EXCEPT !.pc = "failed", !.error = error]

\* an abort that hands what was decoded so far to the caller
AbortedWithPartial(op) ==
    [op EXCEPT !.pc = "failed", !.error = "AbortError",
               !.returned = Some([version |-> op.version, metadata |-> op.metadata,
                                  tensorInfo |-> op.tensorInfo])]

\* the caller aborted the in-flight operation op: the partially read buffer is
\* discarded and nothing is returned; pos keeps the offset the abort came at
Aborted(op) == [Failed("AbortError") EXCEPT !.pos = op.pos]

(***************************************************************************)
(* Inputs: tensor descriptors and file infos                               *)
(***************************************************************************)
Blk(rest) == layerTensorPrefix \o rest

Tensor(name, dimensions, ggmlType) ==
    [name |-> name, dimensions |-> dimensions, ggmlType |-> ggmlType]

\* blk.0.w, blk.1.w, blk.2.w, blk.3.w
T_blk0 == Tensor(Blk(<<"0", ".", "w">>), <<10>>, F32)
T_blk1 == Tensor(Blk(<<"1", ".", "w">>), <<64>>, Q4_0)
T_blk2 == Tensor(Blk(<<"2", ".", "w">>), <<3, 2>>, F16)
T_blk3 == Tensor(Blk(<<"3", ".", "w">>), <<64, 3>>, Q4_0)
\* blk.5: no dot after the number; the index is not contiguous with the others
T_blk5 == Tensor(Blk(<<"5">>), <<2, 2, 2>>, F32)
\* blk.12.w: a number of two digits
T_blk12 == Tensor(Blk(<<"1", "2", ".", "w">>), <<7>>, F16)
\* blk.x.w and blk.: the prefix with no number after it
T_blkx == Tensor(Blk(<<"x", ".", "w">>), <<5>>, F32)
T_blkEmpty == Tensor(Blk(<<>>), <<9>>, F16)
\* blk: the prefix without its dot; out: no prefix
T_blk == Tensor(<<"b", "l", "k">>, <<11>>, F32)
T_out == Tensor(<<"o", "u", "t">>, <<10, 3>>, F32)
\* tensors whose type the lookup cannot size
T_unsized == Tensor(Blk(<<"1", ".", "q">>), <<32>>, Q4_2)
T_noBlock == Tensor(<<"o", "u", "t", "q">>, <<32>>, Q4_3)

TensorPool ==
    {T_blk0, T_blk1, T_blk2, T_blk5, T_blk12, T_blkx, T_blkEmpty, T_blk, T_out,
     T_unsized, T_noBlock}

\* every list of at most n elements of S
RECURSIVE SeqsUpTo(_, _)
SeqsUpTo(S, n) ==
    IF n = 0 THEN {<<>>}
    ELSE LET shorter == SeqsUpTo(S, n - 1)
         IN  shorter \cup {Append(q, x) : q \in {r \in shorter : Len(r) = n - 1}, x \in S}

\* layers 0, 1, 2, 3 and one layer-less tensor; layers 0, 1, 2 and non-blk tensors
SplitExample == <<T_out, T_blk0, T_blk1, T_blk2, T_blk3>>
LayersExample == <<T_blk0, T_out, T_blk1, T_blk2, T_blk>>

NoAttention == Undefined
NoSsm == Undefined

Architecture(vocab_size, embedding_length, feed_forward_length, block_count, attention, ssm) ==
    [vocab_size |-> vocab_size, embedding_length |-> embedding_length,
     feed_forward_length |-> feed_forward_length, block_count |-> block_count,
     attention |-> attention, ssm |-> ssm]

FileInfo(tensorInfo, architecture, tokens, architectureMetadata) ==
    [tensorInfo |-> tensorInfo, architecture |-> architecture, tokens |-> tokens,
     architectureMetadata |-> architectureMetadata]

\* metadata that only declares (or not) a block count
BlockCountOnly(block_count) ==
    Architecture(Undefined, Undefined, Undefined, block_count, NoAttention, NoSsm)

BlockCounts == {Undefined, Some(0), Some(2)}

\* the file infos of the model-size specification
ModelFileInfos ==
    {FileInfo(ti, "llama", 3, BlockCountOnly(bc)) :
        ti \in {Undefined} \cup {Some(l) : l \in SeqsUpTo(TensorPool, MaxTensors)
                                               \cup {SplitExample, LayersExample}},
        bc \in BlockCounts}

DimValues == {1, 2, 3, 10, 64}

TensorTypes == {F32, F16, Q4_0, Q4_2, Q4_3}

\* one tensor per file info: every rank up to ggmlMaxDims, every type
TensorFileInfos ==
    {FileInfo(Some(<<Tensor(<<"t">>, dims, ty)>>), "llama", 3, BlockCountOnly(Undefined)) :
        dims \in SeqsUpTo(DimValues, ggmlMaxDims), ty \in TensorTypes}

Attention(head_count, head_count_kv, key_length, value_length) ==
    [head_count |-> head_count, head_count_kv |-> head_count_kv,
     key_length |-> key_length, value_length |-> value_length]

Ssm(conv_kernel, inner_size, state_size) ==
    [conv_kernel |-> conv_kernel, inner_size |-> inner_size, state_size |-> state_size]

\* an object none of whose fields is present is itself left out (attention?.x)
AttentionOrNone(a) ==
    IF \A f \in DOMAIN a : a[f] = Undefined THEN NoAttention ELSE Some(a)

SsmOrNone(x) ==
    IF \A f \in DOMAIN x : x[f] = Undefined THEN NoSsm ELSE Some(x)

Architectures == {"llama", "mamba"}

ContextTensors == <<T_blk0, T_blk1, T_out>>

\* metadata of the context specification: complete attention metadata, explicit
\* key/value lengths, state-space metadata, and none at all
ContextMetadata ==
    {Architecture(Some(5), Some(6), Some(9), Some(2),
                  Some(Attention(Some(4), Some(2), Undefined, Undefined)), NoSsm),
     Architecture(Undefined, Some(6), Some(9), Undefined,
                  Some(Attention(Some(4), Undefined, Some(2), Some(3))), NoSsm),
     Architecture(Undefined, Some(6), Undefined, Some(2), NoAttention,
                  Some(Ssm(Some(4), Some(2), Some(3)))),
     Architecture(Undefined, Undefined, Undefined, Undefined, NoAttention, NoSsm)}

ContextFileInfos ==
    {FileInfo(ti, arch, 3, md) :
        ti \in {Some(<<>>), Some(ContextTensors)}, arch \in Architectures,
        md \in ContextMetadata}

Opt(values) == {Undefined} \cup {Some(v) : v \in values}

\* every subset of the architecture-specific fields absent; head_count may be 0
FallbackMetadata ==
    {Architecture(vs, el, ffl, bc, AttentionOrNone(Attention(hc, hckv, kl, vl)),
                  SsmOrNone(Ssm(ck, is, ss))) :
        vs \in Opt({5}), el \in Opt({6}), ffl \in Opt({9}), bc \in Opt({2}),
        hc \in Opt({0, 4}), hckv \in Opt({2}), kl \in Opt({2}), vl \in Opt({3}),
        ck \in Opt({4}), is \in Opt({2}), ss \in Opt({3})}

FallbackFileInfos ==
    {FileInfo(Some(<<>>), arch, 3, md) : arch \in Architectures, md \in FallbackMetadata}

\* metadata of the KV-size specification: every attention and ssm field present
\* or absent, a head_count and a conv_kernel of 0, quotients that are not whole
KvMetadata ==
    {Architecture(Undefined, el, Undefined, Undefined,
                  AttentionOrNone(Attention(hc, hckv, kl, vl)), SsmOrNone(Ssm(ck, is, ss))) :
        el \in Opt({6, 10}), hc \in Opt({0, 4}), hckv \in Opt({2}), kl \in Opt({3}),
        vl \in Opt({5}), ck \in Opt({0, 4}), is \in Opt({3}), ss \in Opt({2})}

KvFileInfos ==
    {FileInfo(Some(<<>>), arch, 3, md) : arch \in Architectures, md \in KvMetadata}

\* the file infos of the rederivation specification
RederiveTensorLists ==
    {<<>>, <<T_blk0>>, <<T_blk1>>, <<T_out, T_blk1>>, <<T_blk0, T_blk0>>,
     <<T_blk1, T_blk5, T_out>>, SplitExample}

RederiveFileInfos ==
    {FileInfo(Some(l), "llama", 3,
              Architecture(Undefined, Some(6), Undefined, bc,
                           Some(Attention(Some(4), Undefined, Undefined, Undefined)), NoSsm)) :
        l \in RederiveTensorLists, bc \in {Undefined, Some(2)}}

ContextSizes == {k * 2048 : k \in 0..MaxContextBlocks}

ContextArgsOf(contextSize, batchSize, modelGpuLayers, sequences, isEmbedding, graph) ==
    [contextSize |-> contextSize, batchSize |-> batchSize,
     modelGpuLayers |-> modelGpuLayers, sequences |-> sequences,
     isEmbeddingContext |-> isEmbedding, includeGraphOverhead |-> graph,
     gpuLayers |-> 0, layers |-> 0]

ContextArgs ==
    {ContextArgsOf(c, b, g, q, e, o) :
        c \in ContextSizes, b \in {1, 2}, g \in Opt((-1)..MaxGpuLayers),
        q \in {0, 2}, e \in BOOLEAN, o \in BOOLEAN}

FallbackArgs ==
    {ContextArgsOf(2048 * MaxContextBlocks, 2, Some(g), 1, e, TRUE) :
        g \in {0, 1, MaxGpuLayers}, e \in BOOLEAN}

\* the specifications of the tensor side make no context estimate
NoRequest == ContextArgsOf(0, 0, Undefined, 0, FALSE, FALSE)

\* the gpuLayers the caller passes to the model estimate and to the split
ModelArgs == {[NoRequest EXCEPT !.gpuLayers = g] : g \in (-1)..MaxGpuLayers}

\* the contextSize and the layers passed to _estimateKvMemorySizeInBytes
KvArgs ==
    {[NoRequest EXCEPT !.contextSize = c, !.layers = n] :
        c \in ContextSizes, n \in 0..MaxGpuLayers}

RederiveArgs ==
    {[ContextArgsOf(2048, 1, Some(g), 1, FALSE, TRUE) EXCEPT !.gpuLayers = g] : g \in {0, 1}}

(***************************************************************************)
(* State                                                                   *)
(***************************************************************************)
VARIABLES
    ggufFileInfo,   \* the immutable GgufFileInfo the insights are derived from
    phase,          \* "new" before GgufInsights.from, then "ready" or "threw"
    insts,          \* the GgufInsights instances: [_modelSize, _totalLayers] and,
                    \* per field, how many times it has been derived
    res,            \* per instance, the last value it returned: [op, args, val]
    request,        \* the arguments the caller passes to the context estimate
    byteSource,     \* the bytes the byte source can serve, from offset 0
    parse           \* the parseMetadata operation: [pc, pos, version, ..., returned]

insightVars == <<ggufFileInfo, phase, insts, res, request>>

parseVars == <<byteSource, parse>>

vars == <<ggufFileInfo, phase, insts, res, request, byteSource, parse>>

NoResult == [op |-> "none", args |-> <<>>, val |-> <<>>]

Result(op, args, val) == [op |-> op, args |-> args, val |-> val]

\* new GgufInsights(ggufFileInfo, llama): the fields after a constructor that returned
Constructed(modelSize) ==
    [_modelSize |-> modelSize, _totalLayers |-> Undefined,
     sizeDerivations |-> 1, layerDerivations |-> 0]

\* instances derived from one file info by the rederivation specification
MaxInstances == 2

InitOver(fileInfos, requests) ==
    /\ ggufFileInfo \in fileInfos
    /\ request \in requests
    /\ byteSource = <<>>
    /\ parse = NotParsing
    /\ phase = "new"
    /\ insts = <<>>
    /\ res = <<>>

\* GgufInsights.from(ggufFileInfo, llama): the constructor sums the tensor sizes
From ==
    /\ phase = "new"
    /\ LET size == calculateTensorsSize(TensorInfoOf(ggufFileInfo))
       IN  IF size.threw
           THEN /\ phase' = "threw"
                /\ UNCHANGED <<insts, res>>
           ELSE /\ phase' = "ready"
                /\ insts' = <<Constructed(size.value)>>
                /\ res' = <<NoResult>>
    /\ UNCHANGED <<ggufFileInfo, request, byteSource, parse>>

\* GgufInsights.from again, on the same file info and type table
Rederive ==
    /\ phase = "ready"
    /\ Len(insts) < MaxInstances
    /\ LET size == calculateTensorsSize(TensorInfoOf(ggufFileInfo))
       IN  /\ ~size.threw
           /\ insts' = Append(insts, Constructed(size.value))
           /\ res' = Append(res, NoResult)
    /\ UNCHANGED <<ggufFileInfo, phase, request, byteSource, parse>>

\* get totalLayers()
GetTotalLayers(i) ==
    /\ phase = "ready"
    /\ LET total == totalLayersOf(ggufFileInfo, insts[i])
       IN  /\ insts' = [insts EXCEPT ![i] = ReadTotalLayers(ggufFileInfo, @)]
           /\ res' = [res EXCEPT ![i] = Result("totalLayers", <<>>, <<total>>)]
    /\ UNCHANGED <<ggufFileInfo, phase, request, byteSource, parse>>

\* get modelSize()
GetModelSize(i) ==
    /\ phase = "ready"
    /\ res' = [res EXCEPT ![i] = Result("modelSize", <<>>, <<insts[i]._modelSize>>)]
    /\ UNCHANGED <<ggufFileInfo, phase, insts, request, byteSource, parse>>

\* estimateModelResourceRequirements({gpuLayers})
EstimateModel(i, gpuLayers) ==
    /\ phase = "ready"
    /\ LET r == estimateModelResourceRequirements(ggufFileInfo, gpuLayers)
       IN  /\ ~r.cpuRam.threw /\ ~r.gpuVram.threw
           /\ res' = [res EXCEPT ![i] = Result("estimateModelResourceRequirements",
                                              <<gpuLayers>>,
                                              <<r.cpuRam.value, r.gpuVram.value>>)]
    /\ UNCHANGED <<ggufFileInfo, phase, insts, request, byteSource, parse>>

\* _getTensorResourceSplit(gpuLayers)
GetTensorResourceSplit(i, gpuLayers) ==
    /\ phase = "ready"
    /\ LET split == getTensorResourceSplit(ggufFileInfo, gpuLayers)
       IN  res' = [res EXCEPT ![i] = Result("_getTensorResourceSplit", <<gpuLayers>>,
                                            <<split.cpu, split.gpu>>)]
    /\ UNCHANGED <<ggufFileInfo, phase, insts, request, byteSource, parse>>

\* estimateContextResourceRequirements(args); it reads this.totalLayers first,
\* and once more for the graph overhead of a file info without tensors
EstimateContext(i, args) ==
    /\ phase = "ready"
    /\ LET total == totalLayersOf(ggufFileInfo, insts[i])
           r == estimateContextResourceRequirements(ggufFileInfo, total, args)
           first == ReadTotalLayers(ggufFileInfo, insts[i])
           last == IF args.includeGraphOverhead /\ Len(TensorInfoOf(ggufFileInfo)) = 0
                   THEN ReadTotalLayers(ggufFileInfo, first)
                   ELSE first
       IN  /\ insts' = [insts EXCEPT ![i] = last]
           /\ res' = [res EXCEPT ![i] = Result("estimateContextResourceRequirements",
                                              <<args>>, <<r.cpuRam, r.gpuVram>>)]
    /\ UNCHANGED <<ggufFileInfo, phase, request, byteSource, parse>>

\* _estimateKvMemorySizeInBytes(contextSize, layers)
EstimateKv(i, contextSize, layers) ==
    /\ phase = "ready"
    /\ res' = [res EXCEPT ![i] =
                  Result("_estimateKvMemorySizeInBytes", <<contextSize, layers>>,
                         <<estimateKvMemorySizeInBytes(ggufFileInfo, contextSize, layers)>>)]
    /\ UNCHANGED <<ggufFileInfo, phase, insts, request, byteSource, parse>>

Instances == 1..Len(insts)

ModelNext ==
    \/ From
    \/ \E i \in Instances : GetTotalLayers(i)
    \/ \E i \in Instances : GetModelSize(i)
    \/ \E i \in Instances : EstimateModel(i, request.gpuLayers)
    \/ \E i \in Instances : GetTensorResourceSplit(i, request.gpuLayers)

TensorNext ==
    \/ From
    \/ \E i \in Instances : GetModelSize(i)

ContextNext ==
    \/ From
    \/ \E i \in Instances : GetTotalLayers(i)
    \/ \E i \in Instances : EstimateContext(i, request)

FallbackNext ==
    \/ From
    \/ \E i \in Instances : EstimateContext(i, request)

RederiveNext ==
    \/ From
    \/ Rederive
    \/ \E i \in Instances : GetTotalLayers(i)
    \/ \E i \in Instances : GetModelSize(i)
    \/ \E i \in Instances : EstimateModel(i, request.gpuLayers)
    \/ \E i \in Instances : EstimateContext(i, request)

KvNext ==
    \/ From
    \/ \E i \in Instances : EstimateKv(i, request.contextSize, request.layers)

\* the KV-cache size over every combination of attention and ssm metadata
SpecKv == InitOver(KvFileInfos, KvArgs) /\ [][KvNext]_vars

\* one tensor: the per-tensor size model
SpecTensor == InitOver(TensorFileInfos, {NoRequest}) /\ [][TensorNext]_vars

\* tensor lists: model size, layer count, CPU/GPU partition
SpecModel == InitOver(ModelFileInfos, ModelArgs) /\ [][ModelNext]_vars

\* the context estimate over representative metadata and every argument
SpecContext == InitOver(ContextFileInfos, ContextArgs) /\ [][ContextNext]_vars

\* the context estimate with every subset of the architecture fields absent
SpecFallback == InitOver(FallbackFileInfos, FallbackArgs) /\ [][FallbackNext]_vars

\* two instances derived from the same file info
SpecRederive == InitOver(RederiveFileInfos, RederiveArgs) /\ [][RederiveNext]_vars

(***************************************************************************)
(* parseMetadata, one action per awaited read                              *)
(***************************************************************************)
\* step 1: the 4-byte magic
ParseMagic ==
    /\ parse.pc = "magic"
    /\ LET bytes == readRange(byteSource, 0, 4)
       IN  parse' = IF bytes = Undefined THEN Failed("IOError")
                    ELSE IF ~MagicMatches(bytes[1]) THEN Failed("FormatError")
                    ELSE [parse EXCEPT !.pc = "version", !.pos = 4]
    /\ UNCHANGED <<insightVars, byteSource>>

\* step 2: the 4-byte version
ParseVersion ==
    /\ parse.pc = "version"
    /\ LET version == ReadUint(byteSource, parse.pos, 4)
       IN  parse' = IF version.st = "io" THEN Failed("IOError")
                    ELSE IF version.st # "ok" \/ version.val \notin supportedVersions
                    THEN Failed("UnsupportedVersionError")
                    ELSE [parse EXCEPT !.pc = "counts", !.pos = version.pos,
                                       !.version = version.val]
    /\ UNCHANGED <<insightVars, byteSource>>

\* step 3: tensor count and key-value count
ParseCounts ==
    /\ parse.pc = "counts"
    /\ LET tensorCount == ReadUint(byteSource, parse.pos, CountWidth(parse.version))
           kvCount == ReadUint(byteSource, tensorCount.pos, CountWidth(parse.version))
       IN  parse' = IF tensorCount.st # "ok" THEN Failed(ErrorOf(tensorCount.st))
                    ELSE IF kvCount.st # "ok" THEN Failed(ErrorOf(kvCount.st))
                    ELSE [parse EXCEPT !.pc = "kv", !.pos = kvCount.pos,
                                       !.tensorCount = tensorCount.val,
                                       !.kvCount = kvCount.val]
    /\ UNCHANGED <<insightVars, byteSource>>

\* step 4: the next key-value entry
ParseKvEntry ==
    /\ parse.pc = "kv"
    /\ Len(parse.metadata) < parse.kvCount
    /\ LET entry == ReadKvEntry(byteSource, parse.pos)
       IN  parse' = IF entry.st # "ok" THEN Failed(ErrorOf(entry.st))
                    ELSE [parse EXCEPT !.pos = entry.pos,
                                       !.metadata = Append(@, entry.val)]
    /\ UNCHANGED <<insightVars, byteSource>>

\* step 5: the next tensor descriptor
ParseTensorEntry ==
    /\ parse.pc = "kv"
    /\ Len(parse.metadata) = parse.kvCount
    /\ Len(parse.tensorInfo) < parse.tensorCount
    /\ LET entry == ReadTensorEntry(byteSource, parse.pos)
       IN  parse' = IF entry.st # "ok" THEN Failed(ErrorOf(entry.st))
                    ELSE [parse EXCEPT !.pos = entry.pos,
                                       !.tensorInfo = Append(@, entry.val)]
    /\ UNCHANGED <<insightVars, byteSource>>

\* both tables are complete: the GgufFileInfo is returned
ParseReturn ==
    /\ parse.pc = "kv"
    /\ Len(parse.metadata) = parse.kvCount
    /\ Len(parse.tensorInfo) = parse.tensorCount
    /\ parse' = [parse EXCEPT !.pc = "returned",
                              !.returned = Some([version |-> parse.version,
                                                 metadata |-> parse.metadata,
                                                 tensorInfo |-> parse.tensorInfo])]
    /\ UNCHANGED <<insightVars, byteSource>>

ParseNext ==
    \/ ParseMagic
    \/ ParseVersion
    \/ ParseCounts
    \/ ParseKvEntry
    \/ ParseTensorEntry
    \/ ParseReturn

\* the caller aborts the operation between two awaited reads
ParseAbort ==
    /\ parse.pc \in {"magic", "version", "counts", "kv"}
    /\ parse' = Aborted(parse)
    /\ UNCHANGED <<insightVars, byteSource>>

AbortNext ==
    \/ ParseMagic
    \/ ParseVersion
    \/ ParseCounts
    \/ ParseKvEntry
    \/ ParseTensorEntry
    \/ ParseReturn
    \/ ParseAbort

(***************************************************************************)
(* Byte sources of the decoder specification                               *)
(***************************************************************************)
\* most key-value entries and most tensor descriptors of an enumerated file
MaxEntries == 1

\* an unsigned integer below 256 as `width` little-endian bytes
Uint(n, width) == <<n>> \o Fill(width - 1, 0)

EncodeString(bytes) == Uint(Len(bytes), 8) \o bytes

\* general.alignment: uint32 32;  general.name: string "m";  an array of 2 uint8
KvEntries ==
    <<EncodeString(<<97>>) \o Uint(4, 4) \o Uint(32, 4),
      EncodeString(<<110>>) \o Uint(stringTag, 4) \o EncodeString(<<109>>),
      EncodeString(<<116>>) \o Uint(arrayTag, 4) \o Uint(0, 4) \o Uint(2, 8) \o <<1, 2>>>>

\* a tensor "w" of dimensions [2, 3], type F16, offset 0
TensorEntries ==
    <<EncodeString(<<119>>) \o Uint(2, 4) \o Uint(2, 8) \o Uint(3, 8) \o Uint(F16, 4)
        \o Uint(0, 8)>>

RECURSIVE Concat(_)
Concat(seqs) == IF seqs = <<>> THEN <<>> ELSE Head(seqs) \o Concat(Tail(seqs))

\* what follows the magic in a file of the given version and tables
Body(version, kvs, tensors) ==
    Uint(version, 4) \o Uint(Len(tensors), CountWidth(version))
        \o Uint(Len(kvs), CountWidth(version)) \o Concat(kvs) \o Concat(tensors)

EntryLists(entries, n) == SeqsUpTo({entries[k] : k \in DOMAIN entries}, n)

\* well-formed bodies, one of an unsupported version, one with an unknown value tag
Bodies ==
    {Body(v, kvs, ts) : v \in supportedVersions, kvs \in EntryLists(KvEntries, MaxEntries),
                        ts \in EntryLists(TensorEntries, MaxEntries)}
    \cup {Body(9, <<>>, <<>>)}
    \cup {Body(3, <<EncodeString(<<97>>) \o Uint(13, 4) \o Uint(32, 4)>>, <<>>)}

\* the bytes a four-byte magic is drawn from: G, U, F and 0
MagicBytes == {71, 85, 70, 0}

Magics == {<<a, b, c, d>> : a \in MagicBytes, b \in MagicBytes, c \in MagicBytes,
                            d \in MagicBytes}

Prefixes(bytes) == {SubSeq(bytes, 1, n) : n \in 0..Len(bytes)}

\* every magic before every body, and every truncation of a file with the right magic
ByteSources ==
    {m \o b : m \in Magics, b \in Bodies \cup {<<>>}}
    \cup UNION {Prefixes(ggufMagic \o b) : b \in Bodies}

InitParse ==
    /\ byteSource \in ByteSources
    /\ parse = Parsing
    /\ ggufFileInfo = FileInfo(Undefined, "llama", 0, BlockCountOnly(Undefined))
    /\ phase = "new"
    /\ insts = <<>>
    /\ res = <<>>
    /\ request = NoRequest

\* the decoder over every byte source
SpecParse == InitParse /\ [][ParseNext]_vars

\* the decoder over every byte source, with a caller that may abort it
SpecAbort == InitParse /\ [][AbortNext]_vars

(***************************************************************************)
(* Properties                                                              *)
(***************************************************************************)
TheTensors == TensorInfoOf(ggufFileInfo)

TheMetadata == ggufFileInfo.architectureMetadata

Returned1(i, op) == phase = "ready" /\ res[i].op = op

\* ne: the dimensions right-padded with 1s to ggmlMaxDims
PaddedNe(dims) == [i \in 1..ggmlMaxDims |-> IF i <= Len(dims) THEN dims[i] ELSE 1]

\* nb[0] = typeSize, nb[1] = floor(typeSize * ne[0] / blockSize), nb[i] = nb[i-1] * ne[i-1]
StrideVector(ne, typeSize, blockSize) ==
    LET nb[i \in 1..ggmlMaxDims] ==
            IF i = 1 THEN typeSize
            ELSE IF i = 2 THEN (typeSize * ne[1]) \div blockSize
            ELSE nb[i - 1] * ne[i - 1]
    IN  nb

\* the sum over i in lo..ggmlMaxDims of (ne[i] - 1) * nb[i]   (1-based)
StrideSum(ne, nb, lo) ==
    LET part[i \in (lo - 1)..ggmlMaxDims] ==
            IF i < lo THEN 0 ELSE part[i - 1] + (ne[i] - 1) * nb[i]
    IN  part[ggmlMaxDims]

SizeFormula(dims, typeSize, blockSize) ==
    LET ne == PaddedNe(dims)
        nb == StrideVector(ne, typeSize, blockSize)
    IN  IF blockSize = 1 THEN typeSize + StrideSum(ne, nb, 1)
        ELSE ((ne[1] * nb[1]) \div blockSize) + StrideSum(ne, nb, 2)

Resolves(ggmlType) ==
    getTypeSizeForGgmlType(ggmlType) # Undefined /\ getBlockSizeForGgmlType(ggmlType) # Undefined

\* C1: the size of a tensor whose type resolves to (typeSize, blockSize) is the
\* stride formula over the padded dimensions: typeSize + sum_{i>=0} (ne[i]-1)*nb[i]
\* for block size 1, floor(ne[0]*nb[0]/blockSize) + sum_{i>=1} (ne[i]-1)*nb[i]
\* otherwise; [10] of a 4-byte type is 40 bytes, [64] of an 18-byte/32-block type 36.
C1_TensorSizeFormula ==
    LET t == TheTensors[1]
    IN  /\ (phase # "new" /\ Resolves(t.ggmlType)) => phase = "ready"
        /\ phase = "ready" =>
            /\ Resolves(t.ggmlType)
            /\ insts[1]._modelSize =
                   SizeFormula(t.dimensions, getTypeSizeForGgmlType(t.ggmlType)[1],
                               getBlockSizeForGgmlType(t.ggmlType)[1])
            /\ (t.dimensions = <<10>> /\ t.ggmlType = F32) => insts[1]._modelSize = 40
            /\ (t.dimensions = <<64>> /\ t.ggmlType = Q4_0) => insts[1]._modelSize = 36
            /\ res[1].op = "modelSize" => res[1].val = <<insts[1]._modelSize>>

\* a block-quantized tensor of rank 3 has been sized and its size read
C1_Witness ==
    /\ Returned1(1, "modelSize")
    /\ TheTensors[1].dimensions = <<64, 3, 2>>
    /\ TheTensors[1].ggmlType = Q4_0

\* the layer number written in a tensor name of the model, read off the name
LayerInName(name) ==
    CASE name = <<"b", "l", "k", ".", "0", ".", "w">> -> Some(0)
      [] name = <<"b", "l", "k", ".", "1", ".", "w">> -> Some(1)
      [] name = <<"b", "l", "k", ".", "1", ".", "q">> -> Some(1)
      [] name = <<"b", "l", "k", ".", "2", ".", "w">> -> Some(2)
      [] name = <<"b", "l", "k", ".", "3", ".", "w">> -> Some(3)
      [] name = <<"b", "l", "k", ".", "5">> -> Some(5)
      [] name = <<"b", "l", "k", ".", "1", "2", ".", "w">> -> Some(12)
      [] OTHER -> Undefined

InGpuBucket(tensor, gpuLayers) ==
    LayerInName(tensor.name) = Undefined \/ LayerInName(tensor.name)[1] < gpuLayers

\* C2: for gpuLayers # 0 the GPU bucket holds, in file order, exactly the tensors
\* with no layer number in their name or a layer number < gpuLayers, the CPU bucket
\* the others; layers 0..3 plus a layer-less tensor split at 2 as {-, 0, 1} / {2, 3}.
C2_ResourceSplit ==
    \A i \in Instances :
        (Returned1(i, "_getTensorResourceSplit") /\ res[i].args[1] # 0) =>
            LET gpuLayers == res[i].args[1]
                InGpu(t) == InGpuBucket(t, gpuLayers)
                InCpu(t) == ~InGpuBucket(t, gpuLayers)
            IN  /\ res[i].val = <<SelectSeq(TheTensors, InCpu), SelectSeq(TheTensors, InGpu)>>
                /\ (TheTensors = SplitExample /\ gpuLayers = 2) =>
                       res[i].val = <<<<T_blk2, T_blk3>>, <<T_out, T_blk0, T_blk1>>>>

C2_Witness ==
    /\ Returned1(1, "_getTensorResourceSplit")
    /\ TheTensors = SplitExample
    /\ res[1].args = <<2>>
    /\ Len(res[1].val[1]) = 2

RECURSIVE SumSizesAt(_, _)
\* the sum of the per-tensor sizes of the tensors at the positions idx
SumSizesAt(tensorInfo, idx) ==
    IF idx = {} THEN 0
    ELSE LET k == CHOOSE k \in idx : TRUE
         IN  calculateTensorSize(tensorInfo[k]).value + SumSizesAt(tensorInfo, idx \ {k})

GpuPartition(gpuLayers) ==
    IF gpuLayers = 0 THEN {}
    ELSE {k \in DOMAIN TheTensors : InGpuBucket(TheTensors[k], gpuLayers)}

CpuPartition(gpuLayers) == DOMAIN TheTensors \ GpuPartition(gpuLayers)

\* C3: estimateModelResourceRequirements returns the size of the CPU partition and
\* the size of the GPU partition; they add up to modelSize, and gpuLayers = 0
\* gives {cpuRam: modelSize, gpuVram: 0}.
C3_ModelRequirementsPartition ==
    \A i \in Instances :
        Returned1(i, "estimateModelResourceRequirements") =>
            LET gpuLayers == res[i].args[1]
            IN  /\ res[i].val[1] = SumSizesAt(TheTensors, CpuPartition(gpuLayers))
                /\ res[i].val[2] = SumSizesAt(TheTensors, GpuPartition(gpuLayers))
                /\ res[i].val[1] + res[i].val[2] = insts[i]._modelSize
                /\ gpuLayers = 0 => res[i].val = <<insts[i]._modelSize, 0>>

\* no layer offloaded, over a layer tensor and a layer-less one
C3_Witness ==
    /\ Returned1(1, "estimateModelResourceRequirements")
    /\ res[1].args = <<0>>
    /\ TheTensors = <<T_out, T_blk1>>
    /\ res[1].val[1] > 0

DistinctLayers ==
    {LayerInName(TheTensors[k].name)[1] :
        k \in {j \in DOMAIN TheTensors : LayerInName(TheTensors[j].name) # Undefined}}

DeclaredOrCounted ==
    IF TheMetadata.block_count # Undefined THEN TheMetadata.block_count[1]
    ELSE Cardinality(DistinctLayers)

\* C4: totalLayers is B + 1, B the declared block_count when there is one (0
\* included) and the number of distinct blk.<N> indices otherwise; blk.0, blk.1,
\* blk.2 and non-blk tensors with no declared count give 4.
C4_TotalLayers ==
    \A i \in Instances :
        Returned1(i, "totalLayers") =>
            /\ res[i].val = <<DeclaredOrCounted + 1>>
            /\ (TheTensors = LayersExample /\ TheMetadata.block_count = Undefined) =>
                   res[i].val = <<4>>

C4_Witness ==
    /\ Returned1(1, "totalLayers")
    /\ TheTensors = LayersExample
    /\ TheMetadata.block_count = Undefined

HasUnsizedTensor == \E k \in DOMAIN TheTensors : ~Resolves(TheTensors[k].ggmlType)

\* C7: a tensor whose type has no type size or no block size makes the
\* construction fail: there is no instance, no modelSize and no estimate.
C7_UnsizedTensorFails ==
    HasUnsizedTensor => (phase \in {"new", "threw"} /\ insts = <<>> /\ res = <<>>)

\* the constructor threw at the second tensor, after it had sized the first
C7_Witness ==
    /\ phase = "threw"
    /\ TheTensors = <<T_blk0, T_noBlock>>

\* C9: modelSize is the sum of the per-tensor sizes of all tensor descriptors (0
\* for none), and two instances derived from the same file info return the
\* same value for the same operation with the same arguments.
C9_ModelSizeIsSum ==
    phase = "ready" =>
        /\ \A i \in Instances :
              /\ insts[i]._modelSize = SumSizesAt(TheTensors, DOMAIN TheTensors)
              /\ TheTensors = <<>> => insts[i]._modelSize = 0
              /\ res[i].op = "modelSize" => res[i].val = <<insts[i]._modelSize>>
        /\ \A i, j \in Instances :
              (res[i].op = res[j].op /\ res[i].args = res[j].args) =>
                  res[i].val = res[j].val

\* a second instance returns totalLayers while the first, whose totalLayers is
\* already cached, has returned it too
C9_Witness ==
    /\ phase = "ready"
    /\ Len(insts) = 2
    /\ TheTensors = <<T_out, T_blk1>>
    /\ res[1].op = "totalLayers"
    /\ res[2].op = "totalLayers"
    /\ insts[1]._modelSize > 0

\* modelGpuLayers clamped to [0, totalLayers]
Clamped(modelGpuLayers, totalLayers) ==
    IF modelGpuLayers < 0 THEN 0
    ELSE IF modelGpuLayers > totalLayers THEN totalLayers
    ELSE modelGpuLayers

\* O, G and KV(n) of a context estimate with the arguments a
FixedOverhead(a) ==
    RInt(overheadMemory(ggufFileInfo, a.contextSize, a.batchSize, a.sequences,
                        a.isEmbeddingContext))

GraphOverhead(a) ==
    IF a.includeGraphOverhead
    THEN estimateGraphOverheadMemory(ggufFileInfo, DeclaredOrCounted + 1, a.contextSize)
    ELSE RInt(0)

KvSize(a, layers) == estimateKvMemorySizeInBytes(ggufFileInfo, a.contextSize, layers)

\* C5: with g the clamped modelGpuLayers, g = 0 puts O + G + KV(totalLayers) on
\* the CPU and nothing on the GPU; g > 0 puts O + G on the GPU with KV(g + 1)
\* under partial offload and KV(g) under full offload, and KV(totalLayers - g)
\* on the CPU.
C5_ContextPartition ==
    \A i \in Instances :
        (Returned1(i, "estimateContextResourceRequirements")
            /\ res[i].args[1].modelGpuLayers # Undefined) =>
            LET a == res[i].args[1]
                totalLayers == DeclaredOrCounted + 1
                g == Clamped(a.modelGpuLayers[1], totalLayers)
                OG == RAdd(FixedOverhead(a), GraphOverhead(a))
            IN  IF g = 0
                THEN res[i].val = <<RAdd(OG, KvSize(a, totalLayers)), RInt(0)>>
                ELSE /\ res[i].val[1] = KvSize(a, totalLayers - g)
                     /\ res[i].val[2] =
                            RAdd(OG, KvSize(a, IF g < totalLayers THEN g + 1 ELSE g))

\* one of three layers offloaded, with KV cache on both sides
C5_Witness ==
    /\ Returned1(1, "estimateContextResourceRequirements")
    /\ res[1].args[1].modelGpuLayers = Some(1)
    /\ res[1].args[1].contextSize = 4096
    /\ DeclaredOrCounted = 2
    /\ RLess(RInt(0), res[1].val[1])
    /\ RLess(RInt(0), KvSize(res[1].args[1], 1))
    /\ RLess(RAdd(FixedOverhead(res[1].args[1]), KvSize(res[1].args[1], 1)), res[1].val[2])

\* C6: with contextSize = 0 the KV cache of any number of layers is 0 bytes and so
\* is the graph overhead: the side that carries the overhead holds the fixed
\* overhead alone, the other side 0.
C6_ZeroContextNoKv ==
    \A i \in Instances :
        (Returned1(i, "estimateContextResourceRequirements")
            /\ res[i].args[1].contextSize = 0) =>
            LET a == res[i].args[1]
                totalLayers == DeclaredOrCounted + 1
                usingGpu == a.modelGpuLayers = Undefined \/ a.modelGpuLayers[1] >= 1
            IN  /\ \A n \in 0..totalLayers : KvSize(a, n) = RInt(0)
                /\ GraphOverhead(a) = RInt(0)
                /\ res[i].val = IF usingGpu THEN <<RInt(0), FixedOverhead(a)>>
                                ELSE <<FixedOverhead(a), RInt(0)>>

\* a zero-size context of a model with attention heads, layers on both sides
C6_Witness ==
    /\ Returned1(1, "estimateContextResourceRequirements")
    /\ res[1].args[1].contextSize = 0
    /\ res[1].args[1].includeGraphOverhead
    /\ res[1].args[1].modelGpuLayers = Some(1)
    /\ DeclaredOrCounted = 2
    /\ TheTensors # <<>>
    /\ OptField(TheMetadata.attention, "head_count") = Some(4)

\* the file info with every absent field replaced by its documented fallback:
\* vocabulary size = number of tokens, head_count_kv = head_count, 0 for an
\* absent head_count, embedding, feed-forward and ssm value
WithFallbacks(fileInfo) ==
    LET md == fileInfo.architectureMetadata
        nHead == Coalesce(OptField(md.attention, "head_count"), 0)
    IN  [fileInfo EXCEPT !.architectureMetadata =
            Architecture(
                Some(Coalesce(md.vocab_size, fileInfo.tokens)),
                Some(Coalesce(md.embedding_length, 0)),
                Some(Coalesce(md.feed_forward_length, 0)),
                md.block_count,
                Some(Attention(Some(nHead),
                               Some(Coalesce(OptField(md.attention, "head_count_kv"), nHead)),
                               OptField(md.attention, "key_length"),
                               OptField(md.attention, "value_length"))),
                Some(Ssm(Some(Coalesce(OptField(md.ssm, "conv_kernel"), 0)),
                         Some(Coalesce(OptField(md.ssm, "inner_size"), 0)),
                         Some(Coalesce(OptField(md.ssm, "state_size"), 0)))))]

\* C8: whichever architecture fields are absent, the context estimate returns
\* finite, non-negative cpuRam and gpuVram, the same as with the fallback values
\* written into the metadata; a head_count of 0 divides nothing.
C8_MissingFieldsFallBack ==
    /\ phase # "threw"
    /\ \A i \in Instances :
          Returned1(i, "estimateContextResourceRequirements") =>
              LET a == res[i].args[1]
                  filled == estimateContextResourceRequirements(
                                WithFallbacks(ggufFileInfo), insts[i]._totalLayers[1], a)
              IN  /\ RGeq0(res[i].val[1])
                  /\ RGeq0(res[i].val[2])
                  /\ res[i].val = <<filled.cpuRam, filled.gpuVram>>

\* an estimate over metadata that declares a head_count of 0 and an embedding
\* length, and nothing else
C8_Witness ==
    /\ Returned1(1, "estimateContextResourceRequirements")
    /\ TheMetadata.attention =
           Some(Attention(Some(0), Undefined, Undefined, Undefined))
    /\ TheMetadata.embedding_length = Some(6)
    /\ TheMetadata.ssm = NoSsm
    /\ TheMetadata.vocab_size = Undefined
    /\ TheMetadata.block_count = Undefined

\* C10: a source that serves four bytes other than G, G, U, F makes parseMetadata
\* fail with a FormatError, whatever follows them, and never with an IOError;
\* bytes [0, 4) of a file that parses are exactly G, G, U, F.
C10_BadMagicIsFormatError ==
    /\ (Len(byteSource) >= 4 /\ SubSeq(byteSource, 1, 4) # <<71, 71, 85, 70>>) =>
          /\ parse.pc \in {"magic", "failed"}
          /\ parse.pc = "failed" => parse.error = "FormatError"
          /\ parse.returned = Undefined
    /\ parse.pc = "returned" => readRange(byteSource, 0, 4) = Some(<<71, 71, 85, 70>>)

\* a file that differs from a well-formed one in the last magic byte only was refused
C10_Witness ==
    /\ parse.pc = "failed"
    /\ parse.error = "FormatError"
    /\ SubSeq(byteSource, 1, 4) = <<71, 71, 85, 0>>
    /\ Len(byteSource) > 40

(***************************************************************************)
(* parseMetadata: a complete GgufFileInfo or nothing                       *)
(***************************************************************************)
\* the version and the two counts the header of the byte source declares,
\* read off the bytes directly (every enumerated count is below 256)
DeclaredVersion == byteSource[5]

DeclaredTensorCount == byteSource[9]

DeclaredKvCount == byteSource[9 + CountWidth(DeclaredVersion)]

\* info holds the declared version and every declared entry of both tables
FullyPopulated(info) ==
    /\ Len(byteSource) >= 8 + 2 * CountWidth(DeclaredVersion)
    /\ info.version = DeclaredVersion
    /\ Len(info.metadata) = DeclaredKvCount
    /\ Len(info.tensorInfo) = DeclaredTensorCount

ParseErrors == {"FormatError", "UnsupportedVersionError", "IOError", "AbortError"}

\* C11: parseMetadata ends by returning a fully populated GgufFileInfo or by
\* failing (format, unsupported version, I/O, abort) with nothing returned; in
\* no state of any run, in flight, failed or aborted after some reads, does the
\* caller hold a partially populated GgufFileInfo.
C11_AllOrNothing ==
    /\ parse.pc \in {"magic", "version", "counts", "kv", "returned", "failed"}
    /\ parse.returned # Undefined =>
            /\ parse.pc = "returned"
            /\ parse.error = "none"
            /\ FullyPopulated(parse.returned[1])
    /\ parse.pc = "returned" => parse.returned # Undefined
    /\ parse.pc = "failed" => parse.returned = Undefined /\ parse.error \in ParseErrors
    /\ parse.pc \notin {"returned", "failed"} => parse.error = "none"

\* an abort after the header and a whole key-value entry had been read, from a
\* source that would have decoded to a file with two table entries
C11_Witness ==
    /\ parse.pc = "failed"
    /\ parse.error = "AbortError"
    /\ parse.pos >= 16
    /\ parse.pos > 8 + 2 * CountWidth(DeclaredVersion)
    /\ DeclaredKvCount + DeclaredTensorCount = 2
    /\ parse.returned = Undefined

(***************************************************************************)
(* KV-cache size                                                           *)
(***************************************************************************)
\* the attention and ssm fields of the file info, absent ones as Undefined
AttentionField(field) == OptField(TheMetadata.attention, field)

SsmField(field) == OptField(TheMetadata.ssm, field)

\* a field, or 0 when it is absent
OrZero(opt) == IF opt = Undefined THEN 0 ELSE opt[1]

headCount == OrZero(AttentionField("head_count"))

headCountKv ==
    IF AttentionField("head_count_kv") = Undefined THEN headCount
    ELSE AttentionField("head_count_kv")[1]

\* key_length / value_length when present, embeddingLength / headCount
\* otherwise (with no head to divide by, the fallback value 0 of C8)
headDim(length) ==
    IF length # Undefined THEN RInt(length[1])
    ELSE IF headCount = 0 THEN RInt(0)
    ELSE Rat(OrZero(TheMetadata.embedding_length), headCount)

\* (convKernel - 1) * innerSize, 0 when convKernel is 0 or absent
SsmKeyWidth ==
    IF OrZero(SsmField("conv_kernel")) = 0 THEN 0
    ELSE (OrZero(SsmField("conv_kernel")) - 1) * OrZero(SsmField("inner_size"))

SsmValueWidth == OrZero(SsmField("state_size")) * OrZero(SsmField("inner_size"))

\* K and V
CombinedKeyWidth ==
    RAdd(RMul(headDim(AttentionField("key_length")), RInt(headCountKv)), RInt(SsmKeyWidth))

CombinedValueWidth ==
    RAdd(RMul(headDim(AttentionField("value_length")), RInt(headCountKv)),
         RInt(SsmValueWidth))

\* 4 bytes for the state-space architecture, 2 for every other
ElementBytes == IF ggufFileInfo.architecture = "mamba" THEN 4 ELSE 2

\* n * K * contextSize * keyBytes + n * V * contextSize * valueBytes
KvFormula(n, contextSize) ==
    RAdd(RMul(RMul(RMul(RInt(n), CombinedKeyWidth), RInt(contextSize)), RInt(ElementBytes)),
         RMul(RMul(RMul(RInt(n), CombinedValueWidth), RInt(contextSize)),
              RInt(ElementBytes)))

\* C12: the KV-cache size for n layers is n*K*contextSize*keyBytes +
\* n*V*contextSize*valueBytes with K, V, the head dimensions and the element
\* widths as the metadata give them (4 bytes for mamba, 2 otherwise), and it is
\* linear in n and in contextSize: n times contextSize/2048 times the size of
\* one layer at 2048 tokens.
C12_KvCacheSize ==
    \A i \in Instances :
        Returned1(i, "_estimateKvMemorySizeInBytes") =>
            LET contextSize == res[i].args[1]
                n == res[i].args[2]
            IN  /\ res[i].val[1] = KvFormula(n, contextSize)
                /\ res[i].val[1] =
                       RMul(RInt(n * (contextSize \div 2048)), KvFormula(1, 2048))
                /\ IsFinite(res[i].val[1])

\* three layers at 4096 tokens of a state-space file with attention heads whose
\* dimension is the quotient 10 / 4
C12_Witness ==
    /\ phase = "ready"
    /\ Returned1(1, "_estimateKvMemorySizeInBytes")
    /\ res[1].args = <<4096, 3>>
    /\ ggufFileInfo.architecture = "mamba"
    /\ TheMetadata.embedding_length = Some(10)
    /\ TheMetadata.attention = Some(Attention(Some(4), Some(2), Undefined, Some(5)))
    /\ TheMetadata.ssm = Some(Ssm(Some(4), Some(3), Some(2)))
    /\ res[1].val[1] = RInt(3 * 4096 * 4 * ((5 + 9) + (10 + 6)))

(***************************************************************************)
(* Fixed bookkeeping overhead                                              *)
(***************************************************************************)
\* contextSize cells for an attention architecture, max(1, sequences) for mamba
KvCells(a) ==
    IF ggufFileInfo.architecture # "mamba" THEN a.contextSize
    ELSE IF a.sequences >= 1 THEN a.sequences ELSE 1

VocabularySize ==
    IF TheMetadata.vocab_size # Undefined THEN TheMetadata.vocab_size[1]
    ELSE ggufFileInfo.tokens

\* 8 + llamaMaxRngState + 8 + vocabularySize*batchSize*4 + 8 + E + 8 + 4 + 4 + 4
\* + cells * (llamaPosSize + 8 + llamaSeqIdSize)
OverheadFormula(a) ==
    8 + llamaMaxRngState + 8 + VocabularySize * a.batchSize * 4 + 8
    + (IF a.isEmbeddingContext
       THEN OrZero(TheMetadata.embedding_length) * a.batchSize * 4 ELSE 0)
    + 8 + 4 + 4 + 4 + KvCells(a) * (llamaPosSize + 8 + llamaSeqIdSize)

\* the side of an estimate that carries the overhead, and the KV layers on it
OverheadSide(val, g) == IF g = 0 THEN val[1] ELSE val[2]

OverheadSideLayers(g, totalLayers) ==
    IF g = 0 THEN totalLayers ELSE IF g < totalLayers THEN g + 1 ELSE g

\* C13: what an estimate carries beside the graph overhead and the KV cache is
\* the fixed overhead of the formula, whose cells are contextSize for an
\* attention architecture and max(1, sequences) for mamba; so for attention it
\* does not change with sequences, and for mamba it does not change with
\* contextSize and has one cell when sequences <= 0.
C13_FixedOverhead ==
    \A i \in Instances :
        Returned1(i, "estimateContextResourceRequirements") =>
            LET a == res[i].args[1]
                totalLayers == DeclaredOrCounted + 1
                g == IF a.modelGpuLayers = Undefined THEN totalLayers
                     ELSE Clamped(a.modelGpuLayers[1], totalLayers)
                rest == RAdd(GraphOverhead(a),
                             KvSize(a, OverheadSideLayers(g, totalLayers)))
            IN  /\ OverheadSide(res[i].val, g) = RAdd(RInt(OverheadFormula(a)), rest)
                /\ FixedOverhead(a) = RInt(OverheadFormula(a))
                /\ ggufFileInfo.architecture # "mamba" =>
                       FixedOverhead([a EXCEPT !.sequences = a.sequences + 1])
                           = FixedOverhead(a)
                /\ ggufFileInfo.architecture = "mamba" =>
                       /\ FixedOverhead([a EXCEPT !.contextSize = a.contextSize + 2048])
                              = FixedOverhead(a)
                       /\ a.sequences <= 0 =>
                              FixedOverhead(a) =
                                  FixedOverhead([a EXCEPT !.sequences = 1])

\* an embedding context of a state-space file asked for with no sequence: one
\* cell, whatever the 4096 tokens of context
C13_Witness ==
    /\ phase = "ready"
    /\ Returned1(1, "estimateContextResourceRequirements")
    /\ ggufFileInfo.architecture = "mamba"
    /\ TheMetadata.vocab_size = Some(5)
    /\ res[1].args[1] = ContextArgsOf(4096, 2, Some(0), 0, TRUE, FALSE)
    /\ FixedOverhead(res[1].args[1]) = RInt(65536 + 44 + 5 * 2 * 4 + 6 * 2 * 4 + 16)

(***************************************************************************)
(* Memoized fields                                                         *)
(***************************************************************************)
\* what a step may do to instance i: nothing, or the first layer-count
\* derivation, which fills the empty cache and touches nothing else
InstanceStep(i) ==
    \/ insts'[i] = insts[i]
    \/ /\ insts[i]._totalLayers = Undefined
       /\ insts'[i]._totalLayers # Undefined
       /\ insts'[i]._modelSize = insts[i]._modelSize
       /\ insts'[i].sizeDerivations = insts[i].sizeDerivations

\* a read of totalLayers that follows a computed one returns the cached value
ReadsCached(i) ==
    (insts[i]._totalLayers # Undefined /\ res'[i].op = "totalLayers") =>
        res'[i].val = insts[i]._totalLayers

MemoizedOnce ==
    \A i \in Instances :
        /\ insts[i].layerDerivations <= 1
        /\ insts[i].sizeDerivations <= 1
        /\ insts[i].layerDerivations = 0 <=> insts[i]._totalLayers = Undefined

\* C14: on an instance, over any sequence of totalLayers and modelSize reads and
\* of model and context estimates, the layer count and the model size are each
\* derived at most once; a computed totalLayers never changes and is what every
\* later read returns; nothing but the first totalLayers computation changes
\* the instance.
C14_MemoizedAtMostOnce ==
    /\ []MemoizedOnce
    /\ [][\A i \in Instances : InstanceStep(i) /\ ReadsCached(i)]_vars

\* both kinds of estimate and a read made on an instance whose layer count was
\* derived once, the last by a context estimate that reads totalLayers twice
C14_Witness ==
    /\ phase = "ready"
    /\ TheTensors = <<>>
    /\ Len(insts) = 2
    /\ insts[1].layerDerivations = 1
    /\ insts[1].sizeDerivations = 1
    /\ res[1].op = "estimateContextResourceRequirements"
    /\ res[2].op = "estimateModelResourceRequirements"
    /\ insts[2].layerDerivations = 0

(***************************************************************************)
(* Clamping of modelGpuLayers                                              *)
(***************************************************************************)
\* the estimate the instance returns for the arguments a with modelGpuLayers g
EstimateWith(a, g) ==
    LET r == estimateContextResourceRequirements(
                 ggufFileInfo, DeclaredOrCounted + 1, [a EXCEPT !.modelGpuLayers = Some(g)])
    IN  <<r.cpuRam, r.gpuVram>>

\* C15: a modelGpuLayers at or above totalLayers gives the result of
\* totalLayers (cpuRam = 0), one at or below 0 gives the result of 0
\* (gpuVram = 0), and the GPU and CPU layer counts used lie in
\* [0, totalLayers] and add up to totalLayers.
C15_GpuLayersClamped ==
    \A i \in Instances :
        (Returned1(i, "estimateContextResourceRequirements")
            /\ res[i].args[1].modelGpuLayers # Undefined) =>
            LET a == res[i].args[1]
                layers == a.modelGpuLayers[1]
                totalLayers == DeclaredOrCounted + 1
                finalGpuLayers == FinalGpuLayers(a.modelGpuLayers, totalLayers)
                finalCpuLayers == totalLayers - finalGpuLayers
            IN  /\ layers >= totalLayers =>
                       /\ res[i].val = EstimateWith(a, totalLayers)
                       /\ res[i].val[1] = RInt(0)
                /\ layers <= 0 =>
                       /\ res[i].val = EstimateWith(a, 0)
                       /\ res[i].val[2] = RInt(0)
                /\ finalGpuLayers \in 0..totalLayers
                /\ finalCpuLayers \in 0..totalLayers
                /\ finalGpuLayers = Clamped(layers, totalLayers)
                /\ res[i].val[1] =
                       RAdd(IF finalGpuLayers = 0
                            THEN RAdd(FixedOverhead(a), GraphOverhead(a)) ELSE RInt(0),
                            KvSize(a, totalLayers - Clamped(layers, totalLayers)))

\* five layers asked of a file with three: nothing on the CPU
C15_Witness ==
    /\ phase = "ready"
    /\ Returned1(1, "estimateContextResourceRequirements")
    /\ res[1].args[1].modelGpuLayers = Some(MaxGpuLayers)
    /\ res[1].args[1].contextSize = 2048
    /\ insts[1]._totalLayers = Some(3)
    /\ res[1].val[1] = RInt(0)
    /\ RLess(RInt(0), res[1].val[2])

(***************************************************************************)
(* Full offload                                                            *)
(***************************************************************************)
\* C16: offloading totalLayers layers places every tensor on the GPU:
\* estimateModelResourceRequirements({gpuLayers: totalLayers}) returns
\* cpuRam = 0 and gpuVram = modelSize, whatever the blk.<N> indices of the
\* tensor names and whatever the declared block_count.
C16_FullOffloadAllOnGpu ==
    \A i \in Instances :
        (Returned1(i, "estimateModelResourceRequirements")
            /\ res[i].args = <<ComputeTotalLayers(ggufFileInfo)>>) =>
            res[i].val = <<0, insts[i]._modelSize>>

====
